---------------------------- MODULE Spec2Model ----------------------------
(***************************************************************************)
(* eth_top_monitor.py: monitor of the top-100 ETH holders.                 *)
(*                                                                         *)
(* One poll cycle (job) acquires a ranked list from Etherscan (primary) or *)
(* Bitquery (backup), diffs it against the snapshot file, sends a change   *)
(* report and, every SEND_FULL_EVERY polls, a full listing to Telegram,    *)
(* and rewrites the snapshot file.                                         *)
(***************************************************************************)
EXTENDS Integers, Sequences, FiniteSets, TLC

(***************************************************************************)
(* Program constants                                                       *)
(***************************************************************************)
MinHolders == 10         \* job: len(holders) < 10 is "suspiciously few"
TopN == 100              \* fetch_top_from_etherscan: at most 100 holders
PagesNeeded == 4         \* fetch_top_from_etherscan(pages_needed=4)
ParseLimit == 100        \* parse_etherscan_accounts_page: sorted(rows)[:100]
BitqueryLimit == 100     \* job: fetch_top_with_bitquery(100)
ChangeThreshold == 3800  \* job: if len(full_text) > 3800
ChangeChunk == 3500      \* job: full_text[i:i+3500]
FullChunk == 3800        \* job: text[i:i+3800]
MaxInstances == 1        \* main: scheduler.add_job(..., max_instances=1)

(***************************************************************************)
(* Bounds of the model                                                     *)
(***************************************************************************)
MaxPolls == 2         \* job is not started once polls_done has reached MaxPolls
MaxUpstream == 2      \* upstream states 0..MaxUpstream
MaxSendFullEvery == 2 \* SEND_FULL_EVERY is drawn from 0..MaxSendFullEvery
MaxId == 4            \* identities 1..MaxId of the maps given to compare_snapshots
MaxRank == 3          \* ranks 1..MaxRank of those maps
MaxTextLen == 7700    \* report texts of 0..MaxTextLen characters are chunked
AddrLen == 42         \* characters of an address string
ReadableLen == 14     \* characters of a source-provided balance text
MaxTriggers == 3      \* run times of the interval trigger that come due

(***************************************************************************)
(* Strings.  An address string is modelled by the account it names and by  *)
(* whether it is written with upper-case letters; str.lower() clears that. *)
(* None is the value dict.get gives for an absent key.                     *)
(***************************************************************************)
None == [id |-> 0, up |-> FALSE]

Address(i, u) == [id |-> i, up |-> u]

IsStr(a) == a.id # 0

Lower(a) == [a EXCEPT !.up = FALSE]

StrLen(a) == AddrLen

Max(a, b) == IF a >= b THEN a ELSE b

Min(a, b) == IF a <= b THEN a ELSE b

\* Number of characters of str(n), n >= 0.
Digits(n) == IF n < 10 THEN 1 ELSE IF n < 100 THEN 2 ELSE IF n < 1000 THEN 3 ELSE 4

\* Number of characters of f"{n:3d}".
Width3(n) == Max(3, Digits(n))

(***************************************************************************)
(* Holder (dataclass).  percent_of_total is never read and label is never  *)
(* set, so label is always None.                                           *)
(***************************************************************************)
Holder(r, a, bal, txt) ==
    [rank |-> r, address |-> a, balance_eth |-> bal, balance_readable |-> txt]

(***************************************************************************)
(* Upstream.  Ranking v puts account r at rank r, except that for v > 0    *)
(* the accounts at ranks v and v+1 have swapped and a newcomer holds rank  *)
(* v+2.  Upstream state u is a ranking and the balances shown: states 0    *)
(* and 2 show the same ranking with different balances.                    *)
(***************************************************************************)
RankingOf(u) == IF u = 2 THEN 0 ELSE u

BalanceOf(u) == IF u = 2 THEN 2 ELSE 1

Newcomer(v) == 1000 + v

AccountAt(v, r) ==
    IF v = 0 THEN r
    ELSE IF r = v THEN v + 1
    ELSE IF r = v + 1 THEN v
    ELSE IF r = v + 2 THEN Newcomer(v)
    ELSE r

\* The rows parse_etherscan_accounts_page returns for a page listing ranks
\* first..first+count-1: sorted by rank, at most 100 of them.
ParsedPage(u, start, count, up) ==
    [ok |-> TRUE,
     rows |-> [i \in 1..Min(count, ParseLimit) |->
                 Holder(start + i - 1,
                        Address(AccountAt(RankingOf(u), start + i - 1), up),
                        BalanceOf(u), [src |-> "etherscan", bal |-> BalanceOf(u)])]]

\* parse_etherscan_accounts_page raising (no table), or session.get raising.
PageError == [ok |-> FALSE, rows |-> <<>>]

(***************************************************************************)
(* fetch_top_from_etherscan, over the parse result of each page requested. *)
(***************************************************************************)
\* The loop of lines 154-158.  A row is appended when no row before it, in
\* holders or in parsed, has its address, and the loop breaks once TopN rows
\* are held: the rows appended are the first TopN - Len(holders) such rows.
AddParsed(hlist, parsed) ==
    LET fresh == {i \in 1..Len(parsed) :
                    /\ \A j \in 1..Len(hlist) : hlist[j].address # parsed[i].address
                    /\ \A j \in 1..(i - 1) : parsed[j].address # parsed[i].address}
        Before(i) == Cardinality({j \in fresh : j < i})
        kept == {i \in fresh : Len(hlist) + Before(i) < TopN}
    IN hlist \o [n \in 1..Cardinality(kept) |->
                     parsed[CHOOSE i \in kept : Before(i) = n - 1]]

RECURSIVE FetchPages(_, _, _)
FetchPages(hlist, pages, page) ==
    IF ~(Len(hlist) < TopN /\ page <= PagesNeeded)
    THEN [ok |-> TRUE, holders |-> SubSeq(hlist, 1, Min(Len(hlist), TopN))]
    ELSE IF ~pages[page].ok THEN [ok |-> FALSE, holders |-> <<>>]
    ELSE FetchPages(AddParsed(hlist, pages[page].rows), pages, page + 1)

fetch_top_from_etherscan(pages) == FetchPages(<<>>, pages, 1)

(***************************************************************************)
(* fetch_top_with_bitquery, over the provider's response: either an error  *)
(* (transport, HTTP status, malformed body) or the list of balances.       *)
(***************************************************************************)
fetch_top_with_bitquery(resp) ==
    IF ~resp.ok THEN [ok |-> FALSE, holders |-> <<>>]
    ELSE [ok |-> TRUE,
          holders |-> [i \in 1..Len(resp.balances) |->
                         Holder(i, resp.balances[i].address, resp.balances[i].balance,
                                [src |-> "bitquery", bal |-> resp.balances[i].balance])]]

(***************************************************************************)
(* holders_to_map: a dict comprehension keyed by h.address.lower(); a      *)
(* later holder with the same key replaces an earlier one.  Raises         *)
(* AttributeError when an address is None.                                 *)
(***************************************************************************)
LastWith(hlist, key) ==
    CHOOSE i \in 1..Len(hlist) :
        /\ Lower(hlist[i].address) = key
        /\ \A j \in (i + 1)..Len(hlist) : Lower(hlist[j].address) # key

holders_to_map(hlist) ==
    IF \E i \in 1..Len(hlist) : ~IsStr(hlist[i].address)
    THEN [ok |-> FALSE, map |-> <<>>]
    ELSE [ok |-> TRUE,
          map |-> [key \in {Lower(hlist[i].address) : i \in 1..Len(hlist)} |->
                     LET h == hlist[LastWith(hlist, key)]
                     IN [rank |-> h.rank, balance_eth |-> h.balance_eth,
                         readable |-> h.balance_readable]]]

(***************************************************************************)
(* compare_snapshots.  The three lists are built by iterating Python sets, *)
(* so their order is unspecified: each is modelled as the set of its       *)
(* tuples.  old[addr]["rank"] raises KeyError when an entry has no rank.   *)
(***************************************************************************)
HasRank(m, a) == "rank" \in DOMAIN m[a]

\* compare_snapshots with the first run treated as a silent baseline.
compare_snapshots_Baseline(old, new) ==
    IF DOMAIN old = {}
    THEN [ok |-> TRUE, rank_changes |-> {}, new_entries |-> {}, removed |-> {}]
    ELSE IF \E a \in DOMAIN old \cup DOMAIN new :
              (a \in DOMAIN old /\ ~HasRank(old, a)) \/ (a \in DOMAIN new /\ ~HasRank(new, a))
    THEN [ok |-> FALSE, rank_changes |-> {}, new_entries |-> {}, removed |-> {}]
    ELSE [ok |-> TRUE,
          rank_changes |-> {<<a, old[a].rank, new[a].rank>> :
                              a \in {x \in DOMAIN new \cap DOMAIN old :
                                       old[x].rank # new[x].rank}},
          new_entries |-> {<<a, new[a].rank>> : a \in DOMAIN new \ DOMAIN old},
          removed |-> {<<a, old[a].rank>> : a \in DOMAIN old \ DOMAIN new}]

\* compare_snapshots with the loop of line 206 run over new_addrs - old_addrs.
compare_snapshots_NoExits(old, new) ==
    [ok |-> TRUE,
     rank_changes |-> {<<a, old[a].rank, new[a].rank>> :
                         a \in {x \in DOMAIN new \cap DOMAIN old : old[x].rank # new[x].rank}},
     new_entries |-> {<<a, new[a].rank>> : a \in DOMAIN new \ DOMAIN old},
     removed |-> {<<a, new[a].rank>> : a \in DOMAIN new \ DOMAIN old}]

\* compare_snapshots comparing the whole entries instead of their ranks.
compare_snapshots_WholeEntry(old, new) ==
    LET old_addrs == DOMAIN old
        new_addrs == DOMAIN new
        both == new_addrs \cap old_addrs
    IN IF \E a \in old_addrs \cup new_addrs :
             (a \in old_addrs /\ ~HasRank(old, a)) \/ (a \in new_addrs /\ ~HasRank(new, a))
       THEN [ok |-> FALSE, rank_changes |-> {}, new_entries |-> {}, removed |-> {}]
       ELSE [ok |-> TRUE,
             rank_changes |-> {<<a, old[a].rank, new[a].rank>> :
                                 a \in {x \in both : old[x] # new[x]}},
             new_entries |-> {<<a, new[a].rank>> : a \in new_addrs \ old_addrs},
             removed |-> {<<a, old[a].rank>> : a \in old_addrs \ new_addrs}]

compare_snapshots(old, new) ==
    LET old_addrs == DOMAIN old
        new_addrs == DOMAIN new
        both == new_addrs \cap old_addrs
    IN IF \E a \in both : ~HasRank(old, a) \/ ~HasRank(new, a)
       THEN [ok |-> FALSE, rank_changes |-> {}, new_entries |-> {}, removed |-> {}]
       ELSE IF \E a \in new_addrs \ old_addrs : ~HasRank(new, a)
       THEN [ok |-> FALSE, rank_changes |-> {}, new_entries |-> {}, removed |-> {}]
       ELSE IF \E a \in old_addrs \ new_addrs : ~HasRank(old, a)
       THEN [ok |-> FALSE, rank_changes |-> {}, new_entries |-> {}, removed |-> {}]
       ELSE [ok |-> TRUE,
             rank_changes |-> {<<a, old[a].rank, new[a].rank>> :
                                 a \in {x \in both : old[x].rank # new[x].rank}},
             new_entries |-> {<<a, new[a].rank>> : a \in new_addrs \ old_addrs},
             removed |-> {<<a, old[a].rank>> : a \in old_addrs \ new_addrs}]


(***************************************************************************)
(* Report text.  A text is modelled by its number of characters and a      *)
(* block text[lo:hi] by its two offsets.                                   *)
(***************************************************************************)
\* f"{rnk:3d}. <code>{addr}</code>"
EntryLineLen(t) == Width3(t[2]) + 15 + StrLen(t[1])

\* f"{nrank:3d}. <code>{addr}</code> {arrow} ({orank} -> {nrank})"
ChangeLineLen(t) == Width3(t[3]) + 15 + StrLen(t[1]) + 4 + Digits(t[2]) + 3 + Digits(t[3]) + 1

\* The least and the greatest of a non-empty set of integers.
Least(R) == CHOOSE r \in R : \A q \in R : r <= q

Greatest(R) == CHOOSE r \in R : \A q \in R : r >= q

\* The summed length of the lines of the tuples of S whose t[2] lies in
\* lo..hi (the range is halved to keep the evaluation shallow).
RECURSIVE SumEntryLinesIn(_, _, _)
SumEntryLinesIn(S, lo, hi) ==
    IF S = {} THEN 0
    ELSE IF lo >= hi
    THEN LET x == CHOOSE y \in S : TRUE
         IN EntryLineLen(x) + SumEntryLinesIn(S \ {x}, lo, hi)
    ELSE LET mid == (lo + hi) \div 2
         IN SumEntryLinesIn({t \in S : t[2] <= mid}, lo, mid)
            + SumEntryLinesIn({t \in S : t[2] > mid}, mid + 1, hi)

SumEntryLines(S) ==
    IF S = {} THEN 0
    ELSE SumEntryLinesIn(S, Least({t[2] : t \in S}), Greatest({t[2] : t \in S}))

RECURSIVE SumChangeLinesIn(_, _, _)
SumChangeLinesIn(S, lo, hi) ==
    IF S = {} THEN 0
    ELSE IF lo >= hi
    THEN LET x == CHOOSE y \in S : TRUE
         IN ChangeLineLen(x) + SumChangeLinesIn(S \ {x}, lo, hi)
    ELSE LET mid == (lo + hi) \div 2
         IN SumChangeLinesIn({t \in S : t[2] <= mid}, lo, mid)
            + SumChangeLinesIn({t \in S : t[2] > mid}, mid + 1, hi)

SumChangeLines(S) ==
    IF S = {} THEN 0
    ELSE SumChangeLinesIn(S, Least({t[2] : t \in S}), Greatest({t[2] : t \in S}))

\* len("\n".join(messages)) for the messages of lines 237-252.
ChangeTextLen(d) ==
    LET sections == (IF d.new_entries # {} THEN 1 ELSE 0)
                    + (IF d.removed # {} THEN 1 ELSE 0)
                    + (IF d.rank_changes # {} THEN 1 ELSE 0)
        lines == 1 + sections + Cardinality(d.new_entries)
                 + Cardinality(d.removed) + Cardinality(d.rank_changes)
    IN 34
       + (IF d.new_entries # {} THEN 24 + SumEntryLines(d.new_entries) ELSE 0)
       + (IF d.removed # {} THEN 31 + SumEntryLines(d.removed) ELSE 0)
       + (IF d.rank_changes # {} THEN 23 + SumChangeLines(d.rank_changes) ELSE 0)
       + (lines - 1)

\* len(h.balance_readable): the page's text, or str(bal) + " ETH".
ReadableStrLen(txt) ==
    IF txt.src = "etherscan" THEN ReadableLen ELSE Digits(txt.bal) + 2 + 4

\* format_holder_line with label None.
format_holder_line_len(h) ==
    25 + Width3(h.rank) + StrLen(h.address) + ReadableStrLen(h.balance_readable)

\* The summed length of the lines of holders[lo..hi] (the range is halved
\* to keep the evaluation shallow).
RECURSIVE SumLines(_, _, _)
SumLines(hlist, lo, hi) ==
    IF lo > hi THEN 0
    ELSE IF lo = hi THEN format_holder_line_len(hlist[lo])
    ELSE LET mid == (lo + hi) \div 2
         IN SumLines(hlist, lo, mid) + SumLines(hlist, mid + 1, hi)

\* len("\n".join(lines)) for the lines of 266-270.
FullTextLen(hlist) == 40 + SumLines(hlist, 1, Len(hlist)) + Len(hlist)

\* [text[i:i+size] for i in range(0, len(text), size)]
Slices(n, size) ==
    [k \in 1..((n + size - 1) \div size) |->
        [lo |-> (k - 1) * size, hi |-> Min(k * size, n)]]

\* Lines 255-260 without the split.
ChangeBlocks_Unsplit(n) == <<[lo |-> 0, hi |-> n]>>

\* Lines 255-260: the blocks of the change report.
ChangeBlocks(n) ==
    IF n > ChangeThreshold THEN Slices(n, ChangeChunk) ELSE <<[lo |-> 0, hi |-> n]>>

\* Lines 271-272: the blocks of the full listing.
FullBlocks(n) == Slices(n, FullChunk)

(***************************************************************************)
(* The snapshot file.  It is missing, or its content is not parseable as   *)
(* JSON (garbage, empty after truncation, a proper prefix of a document),  *)
(* or its content is a JSON value.                                         *)
(***************************************************************************)
FileMissing == [kind |-> "missing"]

FileUnparseable == [kind |-> "unparseable"]

FileJson(v) == [kind |-> "json", value |-> v]

JObject(members) == [type |-> "object", members |-> members]

JArray == [type |-> "array"]

JNull == [type |-> "null"]

EmptyDict == JObject([k \in {} |-> k])

\* load_snapshot: {} when the file is missing or json.load raises.
load_snapshot(f) == IF f.kind = "json" THEN f.value ELSE EmptyDict

\* The document of line 274.  The timestamp is never read back; every capture
\* time is modelled by the same value.
Snapshot(map) == JObject([timestamp |-> 1, holders_map |-> JObject(map)])

\* old_snapshot.get("holders_map", {}), then compare_snapshots(old_map, new_map):
\* raises when the document is not an object or holders_map is not one.
DiffAgainst(old_snapshot, nmap) ==
    LET failed == [ok |-> FALSE, rank_changes |-> {}, new_entries |-> {}, removed |-> {}]
    IN IF old_snapshot.type # "object" THEN failed
       ELSE LET old_map == IF "holders_map" \in DOMAIN old_snapshot.members
                           THEN old_snapshot.members.holders_map
                           ELSE EmptyDict
            IN IF old_map.type # "object" THEN failed
               ELSE compare_snapshots(old_map.members, nmap)

HasChanges(d) == d.rank_changes # {} \/ d.new_entries # {} \/ d.removed # {}

(***************************************************************************)
(* State                                                                   *)
(***************************************************************************)
VARIABLES
    cfg,         \* BITQUERY_API_KEY set or not, SEND_FULL_EVERY
    file,        \* content of SNAPSHOT_FILE
    polls_done,  \* state["polls_done"]
    proc,        \* "up", or "crashed" once an exception leaves main
    first,       \* the current or next call of job is main's own (line 284)
    pc,          \* position of the current call of job
    holders,     \* job's local holders
    new_map,     \* job's local new_map
    src,         \* the adapter whose list holders is
    attempts,    \* the adapters called in this cycle, in order
    failure,     \* where this cycle's exception was raised
    pending,     \* blocks of the current report still to be sent
    sent,        \* the calls of send_telegram of this cycle, in order
    send_errors, \* "Telegram send failed" log records of this cycle
    saves,       \* calls of save_snapshot in this cycle
    file0,       \* content of SNAPSHOT_FILE when this cycle started
    arg,         \* the input of a function applied on its own
    ret          \* its result

vars == <<cfg, file, polls_done, proc, first, pc, holders, new_map, src,
          attempts, failure, pending, sent, send_errors, saves, file0, arg, ret>>

\* What a call of job leaves alone besides its own locals.
fnvars == <<arg, ret>>

(***************************************************************************)
(* Inputs of a cycle                                                       *)
(***************************************************************************)
Upstreams == 0..MaxUpstream

\* What the four page requests of one fetch_top_from_etherscan call parse to:
\* no page has the table; only the first has; four pages of 25 rows; the
\* first page lists ranks below those of the others; the later pages show the
\* addresses of the first in another letter case; or every request falls back
\* to the same short page (line 151).
EtherscanResponses ==
    {<<PageError, PageError, PageError, PageError>>,
     <<ParsedPage(0, 1, 25, FALSE), PageError, PageError, PageError>>,
     <<ParsedPage(0, 1, 25, FALSE), ParsedPage(0, 26, 25, FALSE),
       ParsedPage(0, 51, 25, FALSE), ParsedPage(0, 76, 25, FALSE)>>,
     <<ParsedPage(0, MinHolders + 1, MinHolders, FALSE), ParsedPage(0, 1, MinHolders, FALSE),
       ParsedPage(0, 1, MinHolders, FALSE), ParsedPage(0, 1, MinHolders, FALSE)>>,
     <<ParsedPage(0, 1, MinHolders, FALSE), ParsedPage(0, 1, MinHolders, TRUE),
       ParsedPage(0, 1, MinHolders, TRUE), ParsedPage(0, 1, MinHolders, TRUE)>>}
    \cup {[p \in 1..PagesNeeded |-> ParsedPage(u, 1, n, FALSE)] :
             u \in Upstreams, n \in {MinHolders - 1, MinHolders}}

BitqueryBalances(u, n) ==
    [i \in 1..n |-> [address |-> Address(AccountAt(RankingOf(u), i), FALSE),
                     balance |-> BalanceOf(u)]]

\* What the provider answers to the one request of fetch_top_with_bitquery: an
\* error, the balances asked for, one more than asked for, fewer of them, or
\* balances of which one has no address.
BitqueryResponses ==
    {[ok |-> FALSE, balances |-> <<>>],
     [ok |-> TRUE, balances |-> BitqueryBalances(0, BitqueryLimit)],
     [ok |-> TRUE, balances |-> BitqueryBalances(0, BitqueryLimit + 1)],
     [ok |-> TRUE,
      balances |-> [BitqueryBalances(0, MinHolders) EXCEPT ![1].address = None]]}
    \cup {[ok |-> TRUE, balances |-> BitqueryBalances(u, n)] :
             u \in Upstreams, n \in {0, MinHolders - 1}}

\* requests.post returned 2xx, returned an error status (logged by
\* send_telegram), or raised.
SendResults == {"ok", "http_error", "exception"}

\* Contents of SNAPSHOT_FILE the process may find when it starts.
InitialFiles ==
    {FileMissing, FileUnparseable, FileJson(JArray),
     FileJson(JObject([timestamp |-> 0])),
     FileJson(JObject([timestamp |-> 0, holders_map |-> JNull])),
     FileJson(JObject([timestamp |-> 0,
                       holders_map |-> JObject([a \in {Address(1, FALSE)} |->
                                                  [balance_eth |-> 1]])]))}

Configs == [bitquery_key : BOOLEAN, send_full_every : 0..MaxSendFullEvery]

Init ==
    /\ cfg \in Configs
    /\ file \in InitialFiles
    /\ polls_done = 0
    /\ proc = "up"
    /\ first = TRUE
    /\ pc = "idle"
    /\ holders = <<>>
    /\ new_map = <<>>
    /\ src = "none"
    /\ attempts = <<>>
    /\ failure = "none"
    /\ pending = <<>>
    /\ sent = <<>>
    /\ send_errors = 0
    /\ saves = 0
    /\ file0 = file
    /\ arg = <<>>
    /\ ret = <<>>

(***************************************************************************)
(* job                                                                     *)
(***************************************************************************)
\* main line 284, or the scheduler's interval trigger (line 285).
StartJob ==
    /\ proc = "up" /\ pc = "idle" /\ polls_done < MaxPolls
    /\ pc' = "primary"
    /\ holders' = <<>> /\ new_map' = <<>> /\ src' = "none" /\ attempts' = <<>>
    /\ failure' = "none" /\ pending' = <<>> /\ sent' = <<>> /\ send_errors' = 0
    /\ saves' = 0
    /\ file0' = file
    /\ UNCHANGED <<fnvars, cfg, file, polls_done, proc, first>>

\* Lines 217-227, up to the call of fetch_top_with_bitquery.
FetchPrimary ==
    /\ pc = "primary"
    /\ \E pages \in EtherscanResponses :
         LET r == fetch_top_from_etherscan(pages)
         IN /\ attempts' = Append(attempts, "etherscan")
            /\ IF r.ok /\ ~(Len(r.holders) < MinHolders)
               THEN /\ holders' = r.holders /\ src' = "etherscan"
                    /\ pc' = "diff" /\ failure' = failure
               ELSE /\ holders' = (IF r.ok THEN r.holders ELSE holders)
                    /\ src' = src
                    /\ IF cfg.bitquery_key
                       THEN pc' = "backup" /\ failure' = failure
                       ELSE pc' = "error" /\ failure' = "acquisition"
    /\ UNCHANGED <<fnvars, cfg, file, polls_done, proc, first, new_map, pending, sent,
                   send_errors, saves, file0>>

\* Line 225 with the result of fetch_top_with_bitquery not assigned to holders.
FetchBackup_ResultDropped ==
    /\ pc = "backup"
    /\ \E resp \in BitqueryResponses :
         LET r == fetch_top_with_bitquery(resp)
         IN /\ attempts' = Append(attempts, "bitquery")
            /\ UNCHANGED holders
            /\ IF r.ok
               THEN src' = "bitquery" /\ pc' = "diff" /\ failure' = failure
               ELSE src' = src /\ pc' = "error" /\ failure' = "acquisition"
    /\ UNCHANGED <<fnvars, cfg, file, polls_done, proc, first, new_map, pending, sent,
                   send_errors, saves, file0>>

\* Line 225 with a failure of the backup followed by a new try of the primary.
FetchBackup_RetriesPrimary ==
    /\ pc = "backup"
    /\ \E resp \in BitqueryResponses :
         LET r == fetch_top_with_bitquery(resp)
         IN /\ attempts' = Append(attempts, "bitquery")
            /\ IF r.ok
               THEN /\ holders' = r.holders /\ src' = "bitquery"
                    /\ pc' = "diff" /\ failure' = failure
               ELSE /\ UNCHANGED <<holders, src>>
                    /\ pc' = "primary" /\ failure' = failure
    /\ UNCHANGED <<fnvars, cfg, file, polls_done, proc, first, new_map, pending, sent,
                   send_errors, saves, file0>>

\* Line 225.
FetchBackup ==
    /\ pc = "backup"
    /\ \E resp \in BitqueryResponses :
         LET r == fetch_top_with_bitquery(resp)
         IN /\ attempts' = Append(attempts, "bitquery")
            /\ IF r.ok
               THEN /\ holders' = r.holders /\ src' = "bitquery"
                    /\ pc' = "diff" /\ failure' = failure
               ELSE /\ UNCHANGED <<holders, src>>
                    /\ pc' = "error" /\ failure' = "acquisition"
    /\ UNCHANGED <<fnvars, cfg, file, polls_done, proc, first, new_map, pending, sent,
                   send_errors, saves, file0>>

\* Lines 229-256: new_map, load, compare, the change report and its blocks.
Diff ==
    /\ pc = "diff"
    /\ LET m == holders_to_map(holders)
       IN IF ~m.ok
          THEN /\ pc' = "error" /\ failure' = "holders_to_map"
               /\ UNCHANGED <<new_map, pending>>
          ELSE LET d == DiffAgainst(load_snapshot(file), m.map)
               IN /\ new_map' = m.map
                  /\ IF ~d.ok
                     THEN pc' = "error" /\ failure' = "diff" /\ pending' = pending
                     ELSE IF HasChanges(d)
                     THEN /\ pending' = ChangeBlocks(ChangeTextLen(d))
                          /\ pc' = "send_change" /\ failure' = failure
                     ELSE pc' = "count" /\ pending' = <<>> /\ failure' = failure
    /\ UNCHANGED <<fnvars, cfg, file, polls_done, proc, first, holders, src, attempts, sent,
                   send_errors, saves, file0>>

\* send_telegram(text), lines 55-67: the call is recorded; an error status is
\* logged and the call returns; an exception of requests.post propagates.
Send(kind, block, res) ==
    /\ sent' = Append(sent, [kind |-> kind, block |-> block])
    /\ send_errors' = IF res = "http_error" THEN send_errors + 1 ELSE send_errors

\* One send_telegram call of lines 257-260.
SendChange ==
    /\ pc = "send_change" /\ pending # <<>>
    /\ \E res \in SendResults :
         /\ Send("change", Head(pending), res)
         /\ IF res = "exception"
            THEN pc' = "error" /\ failure' = "send" /\ pending' = pending
            ELSE /\ pending' = Tail(pending) /\ failure' = failure
                 /\ pc' = IF Tail(pending) = <<>> THEN "count" ELSE "send_change"
    /\ UNCHANGED <<fnvars, cfg, file, polls_done, proc, first, holders, new_map, src, attempts,
                   saves, file0>>

\* Lines 264-270: count the poll and, when due, build the full listing.
Count ==
    /\ pc = "count"
    /\ polls_done' = polls_done + 1
    /\ IF cfg.send_full_every > 0 /\ polls_done' % cfg.send_full_every = 0
       THEN LET blocks == FullBlocks(FullTextLen(holders))
            IN /\ pending' = blocks
               /\ pc' = IF blocks = <<>> THEN "save" ELSE "send_full"
       ELSE pending' = <<>> /\ pc' = "save"
    /\ UNCHANGED <<fnvars, cfg, file, proc, first, holders, new_map, src, attempts, failure,
                   sent, send_errors, saves, file0>>

\* One send_telegram call of lines 271-272.
SendFull ==
    /\ pc = "send_full" /\ pending # <<>>
    /\ \E res \in SendResults :
         /\ Send("full", Head(pending), res)
         /\ IF res = "exception"
            THEN pc' = "error" /\ failure' = "send" /\ pending' = pending
            ELSE /\ pending' = Tail(pending) /\ failure' = failure
                 /\ pc' = IF Tail(pending) = <<>> THEN "save" ELSE "send_full"
    /\ UNCHANGED <<fnvars, cfg, file, polls_done, proc, first, holders, new_map, src, attempts,
                   saves, file0>>

(***************************************************************************)
(* save_snapshot (called at line 275).  open(SNAPSHOT_FILE, "w") truncates *)
(* the file; json.dump then writes the document through the file's buffer  *)
(* and leaving the with block flushes and closes it.  An exception at      *)
(* either point is logged and swallowed, and job returns.                  *)
(***************************************************************************)
SaveOpen ==
    /\ pc = "save"
    /\ saves' = saves + 1
    /\ \/ file' = FileUnparseable /\ pc' = "save_dump"
       \/ file' = file /\ pc' = "idle"          \* open raised
    /\ first' = IF pc' = "idle" THEN FALSE ELSE first
    /\ UNCHANGED <<fnvars, cfg, polls_done, proc, holders, new_map, src, attempts,
                   failure, pending, sent, send_errors, file0>>

\* Line 274 as if the old holders_map were kept and updated with new_map.
SaveDump_MergesOld ==
    /\ pc = "save_dump"
    /\ LET doc == load_snapshot(file0)
           old == IF /\ doc.type = "object" /\ "holders_map" \in DOMAIN doc.members
                     /\ doc.members.holders_map.type = "object"
                  THEN doc.members.holders_map.members
                  ELSE EmptyDict.members
           merged == [a \in DOMAIN old \cup DOMAIN new_map |->
                        IF a \in DOMAIN new_map THEN new_map[a] ELSE old[a]]
       IN \/ file' = FileJson(Snapshot(merged))
          \/ file' = file
    /\ pc' = "idle"
    /\ first' = FALSE
    /\ UNCHANGED <<fnvars, cfg, polls_done, proc, holders, new_map, src, attempts,
                   failure, pending, sent, send_errors, saves, file0>>

\* Lines 82-84 as if a failure of json.dump were not caught by save_snapshot
\* and reached the except clause of job.
SaveDump_Raises ==
    /\ pc = "save_dump"
    /\ \/ file' = FileJson(Snapshot(new_map)) /\ pc' = "idle" /\ first' = FALSE
                                               /\ failure' = failure
       \/ file' = file /\ pc' = "error" /\ first' = first /\ failure' = "save"
    /\ UNCHANGED <<fnvars, cfg, polls_done, proc, holders, new_map, src, attempts,
                   pending, sent, send_errors, saves, file0>>

\* Lines 82-84, after open succeeded.
SaveDump ==
    /\ pc = "save_dump"
    /\ \/ file' = FileJson(Snapshot(new_map))
       \/ file' = file                           \* json.dump or the flush raised
    /\ pc' = "idle"
    /\ first' = FALSE
    /\ UNCHANGED <<fnvars, cfg, polls_done, proc, holders, new_map, src, attempts,
                   failure, pending, sent, send_errors, saves, file0>>

\* Lines 277-279 followed by the save, as if line 275 were in a finally block.
ReportError_ThenSaves ==
    /\ pc = "error"
    /\ \E res \in SendResults :
         /\ Send("error", [lo |-> 0, hi |-> 0], res)
         /\ IF res = "exception" /\ first
            THEN proc' = "crashed" /\ pc' = "raised" /\ first' = first
            ELSE proc' = proc /\ pc' = "save" /\ first' = first
    /\ UNCHANGED <<fnvars, cfg, file, polls_done, holders, new_map, src, attempts,
                   failure, pending, saves, file0>>

\* Lines 277-279 as if the failed cycle were counted as a poll too.
ReportError_CountsPoll ==
    /\ pc = "error"
    /\ polls_done' = polls_done + 1
    /\ \E res \in SendResults :
         /\ Send("error", [lo |-> 0, hi |-> 0], res)
         /\ IF res = "exception" /\ first
            THEN proc' = "crashed" /\ pc' = "raised" /\ first' = first
            ELSE proc' = proc /\ pc' = "idle" /\ first' = FALSE
    /\ UNCHANGED <<fnvars, cfg, file, holders, new_map, src, attempts,
                   failure, pending, saves, file0>>

\* Lines 277-279: the warning.  An exception of requests.post leaves job: the
\* first call is made by main itself (line 284), later ones by the scheduler,
\* which logs what a job raises.
ReportError ==
    /\ pc = "error"
    /\ \E res \in SendResults :
         /\ Send("error", [lo |-> 0, hi |-> 0], res)
         /\ IF res = "exception" /\ first
            THEN proc' = "crashed" /\ pc' = "raised" /\ first' = first
            ELSE proc' = proc /\ pc' = "idle" /\ first' = FALSE
    /\ UNCHANGED <<fnvars, cfg, file, polls_done, holders, new_map, src, attempts,
                   failure, pending, saves, file0>>

Next ==
    \/ StartJob
    \/ FetchPrimary
    \/ FetchBackup
    \/ Diff
    \/ SendChange
    \/ Count
    \/ SendFull
    \/ SaveOpen
    \/ SaveDump
    \/ ReportError

Spec == Init /\ [][Next]_vars

(***************************************************************************)
(* compare_snapshots and the ordering of the change report (lines 239-252) *)
(* on their own, over all small maps.                                      *)
(***************************************************************************)
Ids == {Address(i, FALSE) : i \in 1..MaxId}

Ranks == 1..MaxRank

Entry(r) == [rank |-> r, balance_eth |-> 1, readable |-> [src |-> "etherscan", bal |-> 1]]

\* The snapshot maps over Ids in which no two identities share a rank.
SmallMaps ==
    LET partial == UNION {[D -> Ranks] : D \in SUBSET Ids}
        unique == {f \in partial : \A a, b \in DOMAIN f : a # b => f[a] # f[b]}
    IN {[a \in DOMAIN f |-> Entry(f[a])] : f \in unique}

RECURSIVE Orderings(_)
Orderings(S) ==
    IF S = {} THEN {<<>>}
    ELSE UNION {{<<x>> \o s : s \in Orderings(S \ {x})} : x \in S}

\* key=lambda x: x[1] of lines 241 and 245.
RankKey(t) == t[2]

\* Line 249 with the key negated.
DeltaKey_Reversed(t) == t[3] - t[2]

\* key=lambda x: (x[1]-x[2]) of line 249.
DeltaKey(t) == t[2] - t[3]

\* sorted(lst, key=lambda x: x[1]) of lines 241 and 245 for a list whose
\* elements are those of S in an unspecified order: every ordering of S that
\* ascends in the key.
SortedByRank(S) ==
    {s \in Orderings(S) : \A i \in 1..(Len(s) - 1) : RankKey(s[i]) <= RankKey(s[i + 1])}

\* Line 249 with reverse=True.
SortedByDelta_Descending(S) ==
    {s \in Orderings(S) : \A i \in 1..(Len(s) - 1) : DeltaKey(s[i]) >= DeltaKey(s[i + 1])}

\* sorted(rank_changes, key=lambda x: (x[1]-x[2])) of line 249, likewise.
SortedByDelta(S) ==
    {s \in Orderings(S) : \A i \in 1..(Len(s) - 1) : DeltaKey(s[i]) <= DeltaKey(s[i + 1])}

InitFn ==
    /\ cfg = [bitquery_key |-> FALSE, send_full_every |-> 0]
    /\ file = FileMissing
    /\ polls_done = 0
    /\ proc = "up"
    /\ first = TRUE
    /\ holders = <<>>
    /\ new_map = <<>>
    /\ src = "none"
    /\ attempts = <<>>
    /\ failure = "none"
    /\ pending = <<>>
    /\ sent = <<>>
    /\ send_errors = 0
    /\ saves = 0
    /\ file0 = file
    /\ ret = <<>>

jobvars == <<cfg, file, polls_done, proc, first, holders, new_map, src, attempts,
             failure, pending, sent, send_errors, saves, file0>>

InitDiff ==
    /\ InitFn
    /\ pc = "compare"
    /\ arg \in [old : SmallMaps, new : SmallMaps]

\* Line 233.
Compare ==
    /\ pc = "compare"
    /\ ret' = compare_snapshots(arg.old, arg.new)
    /\ pc' = "order"
    /\ UNCHANGED <<jobvars, arg>>

\* The order in which lines 241, 245 and 249 append the records to messages.
OrderReport ==
    /\ pc = "order"
    /\ \E ne \in SortedByRank(ret.new_entries),
          rm \in SortedByRank(ret.removed),
          rc \in SortedByDelta(ret.rank_changes) :
         ret' = [new_entries |-> ne, removed |-> rm, rank_changes |-> rc]
    /\ pc' = "ordered"
    /\ UNCHANGED <<jobvars, arg>>

NextDiff == Compare \/ OrderReport

SpecDiff == InitDiff /\ [][NextDiff]_vars

(***************************************************************************)
(* The chunking and sending of a report text (lines 254-260 and 270-272)   *)
(* on their own, over every text length up to MaxTextLen.                  *)
(***************************************************************************)
InitChunk ==
    /\ InitFn
    /\ pc = "chunk"
    /\ arg \in [len : 0..MaxTextLen, kind : {"change", "full"}]

\* Lines 255-256 and 260: the blocks of the change report.
ChunkChange ==
    /\ pc = "chunk" /\ arg.kind = "change"
    /\ pending' = ChangeBlocks(arg.len)
    /\ pc' = "send_change"
    /\ UNCHANGED <<fnvars, cfg, file, polls_done, proc, first, holders, new_map, src,
                   attempts, failure, sent, send_errors, saves, file0>>

\* Lines 271-272: the blocks of the full listing.
ChunkFull ==
    /\ pc = "chunk" /\ arg.kind = "full"
    /\ pending' = FullBlocks(arg.len)
    /\ pc' = IF pending' = <<>> THEN "save" ELSE "send_full"
    /\ UNCHANGED <<fnvars, cfg, file, polls_done, proc, first, holders, new_map, src,
                   attempts, failure, sent, send_errors, saves, file0>>

NextChunk == ChunkChange \/ ChunkFull \/ SendChange \/ SendFull

SpecChunk == InitChunk /\ [][NextChunk]_vars

(***************************************************************************)
(* main and the interval schedule (lines 281-290).  pc is the position of  *)
(* main, arg the executions of job in progress, each with its caller, its  *)
(* position in job, the snapshot it loaded and the polls_done it read, and *)
(* ret counts the run times that came due, those skipped, the executions   *)
(* started and the executions that counted a poll.  file is the number of  *)
(* the execution that saved last.  A run time that comes due while         *)
(* max_instances executions of the job are running is skipped by the       *)
(* scheduler.                                                              *)
(***************************************************************************)
InitSched ==
    /\ cfg = [bitquery_key |-> FALSE, send_full_every |-> 0]
    /\ file = 0
    /\ polls_done = 0
    /\ proc = "up"
    /\ first = TRUE
    /\ pc = "line284"
    /\ holders = <<>>
    /\ new_map = <<>>
    /\ src = "none"
    /\ attempts = <<>>
    /\ failure = "none"
    /\ pending = <<>>
    /\ sent = <<>>
    /\ send_errors = 0
    /\ saves = 0
    /\ file0 = file
    /\ arg = <<>>
    /\ ret = [due |-> 0, skipped |-> 0, started |-> 0, counted |-> 0]

schedvars == <<cfg, first, holders, new_map, src, attempts, failure, pending, sent,
               send_errors, saves, file0>>

Execution(id, by) == [id |-> id, by |-> by, at |-> "acquire", old |-> 0, got |-> 0]

Without(seq, i) == SubSeq(seq, 1, i - 1) \o SubSeq(seq, i + 1, Len(seq))

\* Line 284: main calls job(state) itself.
MainCallsJob ==
    /\ pc = "line284"
    /\ arg' = Append(arg, Execution(ret.started + 1, "main"))
    /\ ret' = [ret EXCEPT !.started = @ + 1]
    /\ pc' = "in_job"
    /\ UNCHANGED <<schedvars, file, polls_done, proc>>

\* Lines 217-229 of execution i: a list is accepted, or acquisition fails.
JobAcquire(i) ==
    /\ arg[i].at = "acquire"
    /\ \E at \in {"load", "error"} : arg' = [arg EXCEPT ![i].at = at]
    /\ UNCHANGED <<schedvars, file, polls_done, proc, pc, ret>>

\* Lines 231-262 of execution i: load_snapshot, then the change report, one
\* of whose sends may raise.
JobLoad(i) ==
    /\ arg[i].at = "load"
    /\ \E at \in {"count_get", "error"} :
         arg' = [arg EXCEPT ![i].at = at, ![i].old = file]
    /\ UNCHANGED <<schedvars, file, polls_done, proc, pc, ret>>

\* Line 264, right-hand side: state.get("polls_done", 0) + 1.
JobCountGet(i) ==
    /\ arg[i].at = "count_get"
    /\ arg' = [arg EXCEPT ![i].at = "count_set", ![i].got = polls_done]
    /\ UNCHANGED <<schedvars, file, polls_done, proc, pc, ret>>

\* Line 264, the assignment to state["polls_done"]; then lines 265-272, one
\* of whose sends may raise.
JobCountSet(i) ==
    /\ arg[i].at = "count_set"
    /\ polls_done' = arg[i].got + 1
    /\ ret' = [ret EXCEPT !.counted = @ + 1]
    /\ \E at \in {"save", "error"} : arg' = [arg EXCEPT ![i].at = at]
    /\ UNCHANGED <<schedvars, file, proc, pc>>

\* Lines 274-275 of execution i: save_snapshot writes the file or fails.
JobSave(i) ==
    /\ arg[i].at = "save"
    /\ file' \in {arg[i].id, file}
    /\ arg' = [arg EXCEPT ![i].at = "done"]
    /\ UNCHANGED <<schedvars, polls_done, proc, pc, ret>>

\* Lines 277-279 of execution i: the warning is sent, or its send raises and
\* the exception leaves job: main's own call ends the process, the
\* scheduler's executor logs it.
JobError(i) ==
    /\ arg[i].at = "error"
    /\ \/ arg' = [arg EXCEPT ![i].at = "done"] /\ UNCHANGED <<proc, pc>>
       \/ /\ arg' = Without(arg, i)
          /\ IF arg[i].by = "main"
             THEN proc' = "crashed" /\ pc' = "exited"
             ELSE UNCHANGED <<proc, pc>>
    /\ UNCHANGED <<schedvars, file, polls_done, ret>>

\* Execution i returns; main goes on to line 285.
JobReturn(i) ==
    /\ arg[i].at = "done"
    /\ arg' = Without(arg, i)
    /\ pc' = IF arg[i].by = "main" THEN "line285" ELSE pc
    /\ UNCHANGED <<schedvars, file, polls_done, proc, ret>>

\* Lines 285-288: add_job and scheduler.start().
StartScheduler ==
    /\ pc = "line285"
    /\ pc' = "line288"
    /\ UNCHANGED <<schedvars, file, polls_done, proc, arg, ret>>

\* Line 285 with max_instances=2.
Trigger_TwoInstances ==
    /\ pc = "line288" /\ ret.due < MaxTriggers
    /\ IF Len(arg) < MaxInstances + 1
       THEN /\ arg' = Append(arg, Execution(ret.started + 1, "scheduler"))
            /\ ret' = [ret EXCEPT !.due = @ + 1, !.started = @ + 1]
       ELSE /\ arg' = arg
            /\ ret' = [ret EXCEPT !.due = @ + 1, !.skipped = @ + 1]
    /\ UNCHANGED <<schedvars, file, polls_done, proc, pc>>

\* A run time of the interval trigger of line 285 comes due while the
\* scheduler runs: the job is submitted unless max_instances executions of it
\* are in progress, in which case this run is skipped.
Trigger ==
    /\ pc = "line288" /\ ret.due < MaxTriggers
    /\ IF Len(arg) < MaxInstances
       THEN /\ arg' = Append(arg, Execution(ret.started + 1, "scheduler"))
            /\ ret' = [ret EXCEPT !.due = @ + 1, !.started = @ + 1]
       ELSE /\ arg' = arg
            /\ ret' = [ret EXCEPT !.due = @ + 1, !.skipped = @ + 1]
    /\ UNCHANGED <<schedvars, file, polls_done, proc, pc>>

NextSched ==
    \/ MainCallsJob
    \/ \E i \in 1..Len(arg) : JobAcquire(i)
    \/ \E i \in 1..Len(arg) : JobLoad(i)
    \/ \E i \in 1..Len(arg) : JobCountGet(i)
    \/ \E i \in 1..Len(arg) : JobCountSet(i)
    \/ \E i \in 1..Len(arg) : JobSave(i)
    \/ \E i \in 1..Len(arg) : JobError(i)
    \/ \E i \in 1..Len(arg) : JobReturn(i)
    \/ StartScheduler
    \/ Trigger

SpecSched == InitSched /\ [][NextSched]_vars

(***************************************************************************)
(* Properties                                                              *)
(***************************************************************************)
\* This cycle got past lines 229-233: new_map was built and compared.
Diffed == src # "none" /\ pc # "diff" /\ failure \notin {"holders_to_map", "diff"}

\* This cycle handed a block of the change report to send_telegram, or is
\* about to.
ChangeReported == pc = "send_change" \/ \E i \in 1..Len(sent) : sent[i].kind = "change"

\* The file holds a document written by save_snapshot.
IsSaved(f) ==
    /\ f.kind = "json" /\ f.value.type = "object"
    /\ DOMAIN f.value.members = {"timestamp", "holders_map"}
    /\ f.value.members.timestamp = 1

\* The largest text the transport takes (line 255).
MaxBlockLen == 3800

\* C1: in a cycle whose acquisition fails (the primary raises or returns too
\* few holders, and the backup is not configured or raises), save_snapshot is
\* not called and the snapshot file is what it was when the cycle started.
C1_FailedAcquisitionKeepsSnapshot ==
    failure = "acquisition" => saves = 0 /\ file = file0

\* A cycle in which both adapters failed has ended, a saved snapshot existing.
C1_Witness ==
    /\ failure = "acquisition" /\ pc = "idle"
    /\ attempts = <<"etherscan", "bitquery">>
    /\ IsSaved(file0) /\ file = file0
    /\ Len(sent) = 1 /\ sent[1].kind = "error"

\* The lists fetch_top_with_bitquery returns for the responses of the model.
BackupLists == {fetch_top_with_bitquery(r).holders : r \in {x \in BitqueryResponses : x.ok}}

\* A map as the set of its <<key, value>> pairs.
Graph(m) == {<<a, m[a]>> : a \in DOMAIN m}

\* Each backup list holders_to_map accepts, with the map it makes of it.
BackupGraphs ==
    {<<h, Graph(holders_to_map(h).map)>> :
        h \in {x \in BackupLists : holders_to_map(x).ok}}

BackupGraph(h) == (CHOOSE p \in BackupGraphs : p[1] = h)[2]

\* C2: when the cycle's list is the backup's, the backup credential is
\* configured, the primary was attempted first and failed, the list is what
\* fetch_top_with_bitquery made of the response, and the diff, the change
\* report and the saved snapshot are those of that list's map.
C2_BackupListIsUsed ==
    src = "bitquery" =>
        /\ cfg.bitquery_key
        /\ attempts = <<"etherscan", "bitquery">>
        /\ holders \in BackupLists
        /\ Diffed => Graph(new_map) = BackupGraph(holders)
        /\ (pc = "send_change" /\ sent = <<>>) =>
              pending = ChangeBlocks(ChangeTextLen(DiffAgainst(load_snapshot(file), new_map)))
        /\ file # file0 => file \in {FileUnparseable, FileJson(Snapshot(new_map))}

\* A cycle that fell back to the backup has ended with the backup's map saved
\* over a different snapshot.
C2_Witness ==
    /\ src = "bitquery" /\ pc = "idle" /\ saves = 1
    /\ Len(holders) = BitqueryLimit
    /\ file = FileJson(Snapshot(new_map)) /\ file # file0
    /\ ChangeReported

\* C3: no cycle compares or saves an acquired list of fewer than 10 holders,
\* whichever adapter it came from.
C3_NoShortListIsUsed ==
    (Diffed \/ saves > 0) => Len(holders) >= MinHolders

\* The old snapshot is empty: the file is missing or unparseable, or its
\* document has no holders_map or an empty one.
OldEmpty(f) ==
    LET doc == load_snapshot(f)
    IN /\ doc.type = "object"
       /\ \/ "holders_map" \notin DOMAIN doc.members
          \/ /\ doc.members.holders_map.type = "object"
             /\ DOMAIN doc.members.holders_map.members = {}

IdsOf(S) == {t[1] : t \in S}

\* C5: compare_snapshots(A, B) returns as entrants exactly keys(B) - keys(A),
\* as exits exactly keys(A) - keys(B), as rank changes exactly the identities
\* of both maps whose rank differs, each record once and with the ranks of
\* the maps, and no identity in two of the three lists.
C5_DiffSets ==
    pc = "order" =>
        LET A == arg.old
            B == arg.new
        IN /\ ret.ok
           /\ IdsOf(ret.new_entries) = DOMAIN B \ DOMAIN A
           /\ IdsOf(ret.removed) = DOMAIN A \ DOMAIN B
           /\ IdsOf(ret.rank_changes) =
                 {a \in DOMAIN A \cap DOMAIN B : A[a].rank # B[a].rank}
           /\ \A t \in ret.new_entries : t[2] = B[t[1]].rank
           /\ \A t \in ret.removed : t[2] = A[t[1]].rank
           /\ \A t \in ret.rank_changes : t[2] = A[t[1]].rank /\ t[3] = B[t[1]].rank
           /\ Cardinality(ret.new_entries) = Cardinality(IdsOf(ret.new_entries))
           /\ Cardinality(ret.removed) = Cardinality(IdsOf(ret.removed))
           /\ Cardinality(ret.rank_changes) = Cardinality(IdsOf(ret.rank_changes))
           /\ IdsOf(ret.new_entries) \cap IdsOf(ret.removed) = {}
           /\ IdsOf(ret.new_entries) \cap IdsOf(ret.rank_changes) = {}
           /\ IdsOf(ret.removed) \cap IdsOf(ret.rank_changes) = {}

\* A comparison with an entrant, an exit, a rank change and an identity whose
\* rank is unchanged.
C5_Witness ==
    /\ pc = "order"
    /\ ret.new_entries # {} /\ ret.removed # {} /\ ret.rank_changes # {}
    /\ \E a \in DOMAIN arg.old \cap DOMAIN arg.new : arg.old[a].rank = arg.new[a].rank

\* The old snapshot of this cycle has the identities of new_map at the same
\* ranks.
SameRanks ==
    LET doc == load_snapshot(file0)
    IN /\ doc.type = "object" /\ "holders_map" \in DOMAIN doc.members
       /\ doc.members.holders_map.type = "object"
       /\ DOMAIN doc.members.holders_map.members = DOMAIN new_map
       /\ \A a \in DOMAIN new_map :
             /\ HasRank(doc.members.holders_map.members, a)
             /\ doc.members.holders_map.members[a].rank = new_map[a].rank

\* C6: when the old and the new map have the same identities at the same
\* ranks, whatever their balances and balance texts, the comparison is empty
\* and the cycle hands no block of a change report to send_telegram.
C6_SameRanksNoMessage ==
    (Diffed /\ SameRanks) =>
        /\ ~HasChanges(DiffAgainst(load_snapshot(file0), new_map))
        /\ ~ChangeReported

\* A cycle has ended that acquired the identities and ranks of the old
\* snapshot with other balances, and sent nothing.
C6_Witness ==
    /\ Diffed /\ SameRanks /\ pc = "idle" /\ saves = 1 /\ sent = <<>>
    /\ DOMAIN new_map # {}
    /\ \E a \in DOMAIN new_map :
          load_snapshot(file0).members.holders_map.members[a].balance_eth
              # new_map[a].balance_eth

Example ==
    [old |-> (Address(1, FALSE) :> Entry(1)) @@ (Address(2, FALSE) :> Entry(2))
                 @@ (Address(3, FALSE) :> Entry(3)),
     new |-> (Address(2, FALSE) :> Entry(1)) @@ (Address(1, FALSE) :> Entry(2))
                 @@ (Address(4, FALSE) :> Entry(3))]

ExampleReport ==
    [rank_changes |-> <<<<Address(1, FALSE), 1, 2>>, <<Address(2, FALSE), 2, 1>>>>,
     new_entries |-> <<<<Address(4, FALSE), 3>>>>,
     removed |-> <<<<Address(3, FALSE), 3>>>>]

\* C7: the change report lists the rank changes in ascending order of
\* old_rank - new_rank, the entrants in ascending order of new rank and the
\* exits in ascending order of old rank, each record of the comparison once;
\* old {A:1, B:2, C:3} and new {B:1, A:2, D:3} give rank changes
\* [(A,1,2), (B,2,1)], entrants [(D,3)] and exits [(C,3)].
C7_ReportOrder ==
    pc = "ordered" =>
        LET d == compare_snapshots(arg.old, arg.new)
            rc == ret.rank_changes
            ne == ret.new_entries
            rm == ret.removed
        IN /\ \A i, j \in 1..Len(rc) : i < j => rc[i][2] - rc[i][3] <= rc[j][2] - rc[j][3]
           /\ \A i, j \in 1..Len(ne) : i < j => ne[i][2] <= ne[j][2]
           /\ \A i, j \in 1..Len(rm) : i < j => rm[i][2] <= rm[j][2]
           /\ {rc[i] : i \in 1..Len(rc)} = d.rank_changes
           /\ Len(rc) = Cardinality(d.rank_changes)
           /\ {ne[i] : i \in 1..Len(ne)} = d.new_entries
           /\ Len(ne) = Cardinality(d.new_entries)
           /\ {rm[i] : i \in 1..Len(rm)} = d.removed
           /\ Len(rm) = Cardinality(d.removed)
           /\ arg = Example => ret = ExampleReport

\* The report of the example has been ordered.
C7_Witness == pc = "ordered" /\ arg = Example /\ ret = ExampleReport

\* C8: for the change report and the full listing and every text length, no
\* block handed to send_telegram is longer than 3800 characters, the blocks
\* are handed over in the order of the text, each starting where the one
\* before ended, and once all are sent they make up the whole text.
C8_BlocksCoverText ==
    /\ \A i \in 1..Len(sent) :
          /\ sent[i].block.lo <= sent[i].block.hi
          /\ sent[i].block.hi - sent[i].block.lo <= MaxBlockLen
          /\ sent[i].block.lo = IF i = 1 THEN 0 ELSE sent[i - 1].block.hi
    /\ pc \in {"count", "save"} =>
          (IF sent = <<>> THEN 0 ELSE sent[Len(sent)].block.hi) = arg.len

\* A change report of more than 7000 characters has been sent in three
\* blocks.
C8_Witness ==
    /\ pc = "count" /\ arg.kind = "change" /\ Len(sent) = 3
    /\ arg.len > 2 * ChangeChunk /\ sent[3].block.hi = arg.len

\* C9: from the call of save_snapshot on, the file holds either the complete
\* document it held before or the complete new document.
C9_SaveIsAtomic ==
    saves > 0 => file \in {file0, FileJson(Snapshot(new_map))}

\* C10: whatever the file holds, no cycle fails in loading or comparing the
\* old snapshot.
C10_LoadNeverFailsCycle == failure # "diff"


\* The call of job has ended: it returned, or its exception left it.
CycleEnded == pc \in {"idle", "raised"} /\ attempts # <<>>

\* A send_telegram call for the change report or the full listing failed in
\* this cycle: requests.post raised, or it returned an error status.
ReportSendFailed == failure = "send" \/ (failure = "none" /\ send_errors > 0)

\* C11: a cycle in which a send_telegram call for the change report or the
\* full listing failed, by an error status or by an exception, still hands
\* every remaining block to the transport and still calls save_snapshot.
C11_TransportFailureDoesNotAbort ==
    (CycleEnded /\ ReportSendFailed) => (pending = <<>> /\ saves = 1)

\* C12: a cycle whose acquisition failed ends with the process up, job
\* returned, and exactly one call of send_telegram, the warning.
C12_AcquisitionFailureNeverCrashes ==
    (CycleEnded /\ failure = "acquisition") =>
        /\ proc = "up" /\ pc = "idle"
        /\ Len(sent) = 1 /\ sent[1].kind = "error"

\* C13: the list a cycle accepts from either adapter has at most 100 entries
\* and ascends in rank.
C13_AcceptedListIsTop100Sorted ==
    (pc = "diff" /\ src # "none") =>
        /\ Len(holders) <= TopN
        /\ \A i \in 1..(Len(holders) - 1) : holders[i].rank <= holders[i + 1].rank

\* C16: in one cycle the adapters called are the primary, or the primary and
\* then the backup, each once; the backup is called only with the credential
\* configured and after the primary raised or returned fewer than 10 holders;
\* once acquisition has failed no adapter is called again in the cycle.
C16_OneAttemptPerAdapter ==
    /\ attempts \in {<<>>, <<"etherscan">>, <<"etherscan", "bitquery">>}
    /\ pc = "primary" => attempts = <<>>
    /\ pc = "backup" =>
          /\ attempts = <<"etherscan">> /\ cfg.bitquery_key
          /\ src = "none" /\ Len(holders) < MinHolders
    /\ Len(attempts) = 2 => cfg.bitquery_key /\ src # "etherscan"
    /\ failure = "acquisition" => pc \in {"error", "idle", "raised"}

\* A cycle has ended in which the primary returned 9 holders and the backup,
\* tried once, raised.
C16_Witness ==
    /\ pc = "idle" /\ failure = "acquisition"
    /\ attempts = <<"etherscan", "bitquery">>
    /\ Len(holders) = MinHolders - 1 /\ src = "none"

\* C17: the map holders_to_map makes of the cycle's list has one entry for
\* each holder of the list, and no two of its entries have the same rank.
C17_OneMapEntryPerHolder ==
    Diffed =>
        /\ Cardinality(DOMAIN new_map) = Len(holders)
        /\ \A a, b \in DOMAIN new_map : a # b => new_map[a].rank # new_map[b].rank

\* The full listing is due after the count that makes polls_done n.
FullDue(n) == cfg.send_full_every > 0 /\ n % cfg.send_full_every = 0

\* C18: polls_done changes only in the step that follows acquisition, load and
\* change reporting, which adds exactly 1 to it, so a cycle that fails earlier
\* leaves it alone; the sending of the full listing begins exactly in that
\* step and exactly when SEND_FULL_EVERY > 0 and the new polls_done is a
\* multiple of it.
C18_PollsCountedOncePerGoodCycle ==
    [][/\ pc = "count" => polls_done' = polls_done + 1
       /\ pc # "count" => polls_done' = polls_done
       /\ (pc' = "send_full" /\ pc # "send_full") <=> (pc = "count" /\ FullDue(polls_done'))
       /\ (Len(sent') > Len(sent) /\ sent'[Len(sent')].kind = "full") => pc = "send_full"
      ]_vars

\* With SEND_FULL_EVERY = 2, a cycle after the first has counted polls_done to
\* 2, has sent the full listing and has ended.
C18_Witness ==
    /\ pc = "idle" /\ failure = "none" /\ ~first
    /\ cfg.send_full_every = 2 /\ polls_done = 2
    /\ \E i \in 1..Len(sent) : sent[i].kind = "full"

\* The error warning of line 279 was handed to send_telegram in this cycle.
ErrorSent == \E i \in 1..Len(sent) : sent[i].kind = "error"

\* C19: no cycle calls save_snapshot and sends the error warning; when
\* save_snapshot is called every block of the cycle's reports has been sent
\* and nothing has failed; a cycle that has ended did the one or the other.
C19_SaveXorWarning ==
    /\ ~(saves >= 1 /\ ErrorSent)
    /\ saves <= 1
    /\ (pc = "save" \/ saves = 1) => pending = <<>> /\ failure = "none"
    /\ ErrorSent => pc \in {"idle", "raised"}
    /\ CycleEnded => (ErrorSent /\ saves = 0) \/ (~ErrorSent /\ saves = 1)

\* A cycle has ended whose save_snapshot failed after truncating the file: no
\* warning was sent.
C19_Witness ==
    /\ pc = "idle" /\ saves = 1 /\ ~ErrorSent
    /\ file = FileUnparseable /\ file0 # FileUnparseable
    /\ ChangeReported

\* This cycle began with a document written by save_snapshot and acquired
\* the identities and ranks that document holds.
SameAsSaved == IsSaved(file0) /\ Diffed /\ SameRanks

\* C20: the step in which save_snapshot succeeds leaves in the file the
\* document whose holders_map is holders_to_map of the list acquired in that
\* cycle and nothing else; and a cycle that begins with such a document and
\* acquires the same identities at the same ranks hands no block of a change
\* report to send_telegram.
C20_SavedMapIsAcquiredList ==
    [][/\ (pc = "save_dump" /\ file' # file) =>
             file' = FileJson(Snapshot(holders_to_map(holders).map))
       /\ SameAsSaved => ~ChangeReported
       /\ SameAsSaved' => ~ChangeReported'
      ]_vars

\* A cycle after the first began with a saved document, acquired its
\* identities and ranks with other balances, sent nothing and saved again.
C20_Witness ==
    /\ pc = "idle" /\ ~first /\ SameAsSaved
    /\ sent = <<>> /\ saves = 1
    /\ IsSaved(file) /\ file # file0
    /\ file = FileJson(Snapshot(holders_to_map(holders).map))

\* C15 as stated: the rank changes are listed with the largest
\* old_rank - new_rank, the largest upward jump, first.
C15_LargestJumpsFirst ==
    pc = "ordered" =>
        LET rc == ret.rank_changes
        IN \A i, j \in 1..Len(rc) : i < j => rc[i][2] - rc[i][3] >= rc[j][2] - rc[j][3]

\* C15: the rank changes are listed with the least old_rank - new_rank, the
\* largest fall, first and the largest old_rank - new_rank, the largest
\* upward jump, last.
C15_LargestJumpsLast ==
    pc = "ordered" =>
        LET rc == ret.rank_changes
        IN \A i \in 1..Len(rc) :
              /\ rc[1][2] - rc[1][3] <= rc[i][2] - rc[i][3]
              /\ rc[i][2] - rc[i][3] <= rc[Len(rc)][2] - rc[Len(rc)][3]

\* A report has been ordered in which a holder that fell is listed first and
\* one that rose by more than any other is listed last.
C15_Witness ==
    /\ pc = "ordered" /\ Len(ret.rank_changes) >= 3
    /\ LET rc == ret.rank_changes
       IN /\ rc[1][2] < rc[1][3]
          /\ rc[Len(rc)][2] > rc[Len(rc)][3]
          /\ \A i \in 1..(Len(rc) - 1) :
                rc[i][2] - rc[i][3] < rc[Len(rc)][2] - rc[Len(rc)][3]

\* C14: while main's own call of job is in progress the schedule has not
\* started and nothing else runs; once the scheduler runs, main's call has
\* returned; at most one execution of job is in progress at any time; so
\* every execution saves over the snapshot it loaded, and every count of a
\* poll adds 1 to polls_done.
C14_OneJobAtATime ==
    /\ Len(arg) <= 1
    /\ pc \in {"line284", "in_job", "line285"} =>
          /\ ret.due = 0
          /\ \A i \in 1..Len(arg) : arg[i].by = "main"
    /\ pc = "in_job" <=> (Len(arg) = 1 /\ arg[1].by = "main")
    /\ pc = "line288" => ret.started >= 1 /\ \A i \in 1..Len(arg) : arg[i].by = "scheduler"
    /\ \A i \in 1..Len(arg) :
          arg[i].at \in {"count_get", "count_set", "save"} => file = arg[i].old
    /\ polls_done = ret.counted

\* The scheduler runs, a run time came due while an execution of job was in
\* progress and was skipped, and that execution is about to save.
C14_Witness ==
    /\ pc = "line288" /\ ret.skipped >= 1
    /\ Len(arg) = 1 /\ arg[1].at = "save" /\ arg[1].by = "scheduler"
    /\ polls_done >= 2
=============================================================================
